---- MODULE Spec2Model ----
(***************************************************************************)
(* A model of the sorting algorithms of include/algorithms/Sorting.h:      *)
(* IsSorted, MergeSort (both entry points), QuickSort, InsertionSort and   *)
(* BucketSort.  A behaviour is one call of one of them on one input.       *)
(* Positions are 0-based as in the source; a TLA+ sequence s holds the     *)
(* element of position p at s[p + 1].  MIST_ASSERT is fatal: a failed      *)
(* assertion ends the call in the state "asserted".                        *)
(***************************************************************************)
EXTENDS Integers, Sequences, FiniteSets, TLC

VARIABLES
    \* MergeSort
    msEntry,            \* "collection": MergeSort(CollectionType*), "range": MergeSort(begin, end)
    msInput,            \* the sequence as it was when MergeSort was called
    collection,         \* *collection, or the array [begin, end)
    workingArea,        \* the scratch buffer
    readIsCollection,   \* TRUE when readTarget is the collection and writeTarget the working area
    blockSize,
    msI,                \* i of the pair loop
    writeHead,
    msPc

VARIABLES
    \* IsSorted
    range,              \* the elements of [begin, end)
    rangeInput,         \* the range as it was when IsSorted was called
    sortedResult        \* "none" before the call, then "true", "false" or "asserted"

VARIABLES
    \* QuickSort
    qsInput,            \* the sequence as it was when QuickSort was called
    array,              \* the elements of [begin, end)
    sortingRanges,      \* the stack of <<first, second>> position pairs, top last
    lastPass,           \* what the last iteration of the while loop did
    qsPc

VARIABLES
    \* InsertionSort
    destInput,          \* *destination as it was when InsertionSort was called
    source,
    destination,
    sourcePos,          \* the number of elements of source already inserted
    start,
    end,
    insPc

VARIABLES
    \* BucketSort
    bsInput,            \* the sequence as it was when BucketSort was called
    bucketRange,        \* the elements of [begin, end)
    min,
    max,
    counts,
    current,            \* the position of the iterator current
    currentIndex,
    countsOutOfBounds,  \* TRUE once counts was indexed at a position it does not have
    bsPc

msVars == <<msEntry, msInput, collection, workingArea, readIsCollection,
            blockSize, msI, writeHead, msPc>>
sortedVars == <<range, rangeInput, sortedResult>>
qsVars == <<qsInput, array, sortingRanges, lastPass, qsPc>>
insVars == <<destInput, source, destination, sourcePos, start, end, insPc>>
bsVars == <<bsInput, bucketRange, min, max, counts, current, currentIndex,
            countsOutOfBounds, bsPc>>

vars == <<msVars, sortedVars, qsVars, insVars, bsVars>>

\* The variables of an operation that is not the one called
IdleMergeSort ==
    /\ msEntry = "idle" /\ msInput = <<>> /\ collection = <<>> /\ workingArea = <<>>
    /\ readIsCollection = TRUE /\ blockSize = 1 /\ msI = 0 /\ writeHead = 0
    /\ msPc = "idle"
IdleIsSorted == range = <<>> /\ rangeInput = <<>> /\ sortedResult = "idle"
\* lastPass before the first iteration of QuickSort's loop
NoPass ==
    [made |-> FALSE, first |-> 0, second |-> 0, pivot |-> 0, touched |-> {},
     before |-> <<>>, after |-> <<>>, pushed |-> <<>>]
IdleQuickSort ==
    /\ qsInput = <<>> /\ array = <<>> /\ sortingRanges = <<>> /\ lastPass = NoPass
    /\ qsPc = "idle"
IdleInsertionSort ==
    /\ destInput = <<>> /\ source = <<>> /\ destination = <<>> /\ sourcePos = 0
    /\ start = 0 /\ end = 0 /\ insPc = "idle"
IdleBucketSort ==
    /\ bsInput = <<>> /\ bucketRange = <<>> /\ min = 0 /\ max = 0 /\ counts = <<>>
    /\ current = 0 /\ currentIndex = 0 /\ countsOutOfBounds = FALSE /\ bsPc = "idle"

----------------------------------------------------------------------------
(* Bounds *)

\* longest sequence with keys 0..MaxKey given to MergeSort
MergeMaxLen == 5
\* keys of the short MergeSort inputs are 0..MergeMaxKey
MergeMaxKey == 2
\* longest sequence with keys 0..1 given to MergeSort
MergeMaxBinLen == 11
\* IsSorted is called on the sequences of at most SortedMaxLen values 0..SortedMaxValue
SortedMaxLen == 4
SortedMaxValue == 2
\* QuickSort is called on the sequences of at most QuickMaxLen values 0..QuickMaxValue
QuickMaxLen == 6
QuickMaxValue == 2
\* InsertionSort is called with a destination of at most InsertMaxDest and a
\* source of at most InsertMaxSource values 0..InsertMaxValue
InsertMaxDest == 3
InsertMaxSource == 3
InsertMaxValue == 2
\* BucketSort is called on the sequences of at most BucketMaxLen values
\* 0..BucketMaxValue, with min and max in 0..BucketMaxValue
BucketMaxLen == 3
BucketMaxValue == 3
\* how far past the end of counts the rebuilding loop is followed
BucketMaxOverrun == 1

----------------------------------------------------------------------------
(* Helpers *)

SeqsUpTo(S, n) == UNION {[1..k -> S] : k \in 0..n}

Min(left, right) == IF left < right THEN left ELSE right

----------------------------------------------------------------------------
(* MergeSort *)

\* An element is a key with the position it had in the input; operator< of
\* the element type looks at the key only.
Elem(k, p) == [key |-> k, id |-> p]

\* The value-initialised element of the working area (id 0 is no input position)
DefaultElem == Elem(0, 0)

Tagged(keys) == [p \in 1..Len(keys) |-> Elem(keys[p], p)]

MergeInputs == {Tagged(s) : s \in SeqsUpTo(0..MergeMaxKey, MergeMaxLen)
                                  \cup SeqsUpTo(0..1, MergeMaxBinLen)}

collectionSize == Len(collection)

readTarget == IF readIsCollection THEN collection ELSE workingArea
writeTarget == IF readIsCollection THEN workingArea ELSE collection

numBlocks == collectionSize \div blockSize

\* MergeBlocks with the comparison of the two heads turned into <=: on a
\* tie the head of the next block is written first
RECURSIVE MergeBlocksTieRight(_, _, _, _, _, _, _)
MergeBlocksTieRight(read, write, first, last, firstNext, lastNext, wh) ==
    IF ~(firstNext # lastNext \/ first # last)
    THEN [write |-> write, writeHead |-> wh]
    ELSE IF firstNext = lastNext
    THEN MergeBlocksTieRight(read, [write EXCEPT ![wh + 1] = read[first + 1]],
                             first + 1, last, firstNext, lastNext, wh + 1)
    ELSE IF first = last
    THEN MergeBlocksTieRight(read, [write EXCEPT ![wh + 1] = read[firstNext + 1]],
                             first, last, firstNext + 1, lastNext, wh + 1)
    ELSE IF read[firstNext + 1].key <= read[first + 1].key
    THEN MergeBlocksTieRight(read, [write EXCEPT ![wh + 1] = read[firstNext + 1]],
                             first, last, firstNext + 1, lastNext, wh + 1)
    ELSE MergeBlocksTieRight(read, [write EXCEPT ![wh + 1] = read[first + 1]],
                             first + 1, last, firstNext, lastNext, wh + 1)

\* The inner while loop: merges read[first, last) and read[firstNext, lastNext)
\* into write, starting at wh
RECURSIVE MergeBlocks(_, _, _, _, _, _, _)
MergeBlocks(read, write, first, last, firstNext, lastNext, wh) ==
    IF ~(firstNext # lastNext \/ first # last)
    THEN [write |-> write, writeHead |-> wh]
    ELSE IF firstNext = lastNext
    THEN MergeBlocks(read, [write EXCEPT ![wh + 1] = read[first + 1]],
                     first + 1, last, firstNext, lastNext, wh + 1)
    ELSE IF first = last
    THEN MergeBlocks(read, [write EXCEPT ![wh + 1] = read[firstNext + 1]],
                     first, last, firstNext + 1, lastNext, wh + 1)
    ELSE IF read[firstNext + 1].key < read[first + 1].key
    THEN MergeBlocks(read, [write EXCEPT ![wh + 1] = read[firstNext + 1]],
                     first, last, firstNext + 1, lastNext, wh + 1)
    ELSE MergeBlocks(read, [write EXCEPT ![wh + 1] = read[first + 1]],
                     first + 1, last, firstNext, lastNext, wh + 1)

InitMergeSort ==
    /\ msEntry \in {"collection", "range"}
    /\ msInput \in MergeInputs
    /\ collection = msInput
    /\ workingArea = [p \in 1..Len(msInput) |-> DefaultElem]
    /\ readIsCollection = TRUE
    /\ blockSize = 1
    /\ msI = 0
    /\ writeHead = 0
    /\ msPc = "loop"

\* One iteration of the for loop over the block pairs
MergeSortPair ==
    /\ msPc = "loop"
    /\ blockSize < collectionSize
    /\ msI < numBlocks
    /\ LET first == msI * blockSize
           last == (msI + 1) * blockSize
           firstNext == (msI + 1) * blockSize
           lastNext == Min((msI + 2) * blockSize, collectionSize)
           merged == MergeBlocks(readTarget, writeTarget, first, last,
                                 firstNext, lastNext, writeHead)
       IN  /\ IF readIsCollection
              THEN workingArea' = merged.write /\ UNCHANGED collection
              ELSE collection' = merged.write /\ UNCHANGED workingArea
           /\ writeHead' = merged.writeHead
    /\ msI' = msI + 2
    /\ UNCHANGED <<msEntry, msInput, readIsCollection, blockSize, msPc>>
    /\ UNCHANGED <<sortedVars, qsVars, insVars, bsVars>>

\* The end of a pass: the for loop is over, the buffers swap roles
MergeSortEndPass ==
    /\ msPc = "loop"
    /\ blockSize < collectionSize
    /\ ~(msI < numBlocks)
    /\ readIsCollection' = ~readIsCollection
    /\ writeHead' = 0
    /\ blockSize' = blockSize + blockSize
    /\ msI' = 0
    /\ UNCHANGED <<msEntry, msInput, collection, workingArea, msPc>>
    /\ UNCHANGED <<sortedVars, qsVars, insVars, bsVars>>

\* MergeSortCopyCollection copying the write target instead of the read target
MergeSortCopyCollectionFromWrite ==
    /\ msPc = "loop"
    /\ msEntry = "collection"
    /\ ~(blockSize < collectionSize)
    /\ collection' = writeTarget
    /\ msPc' = "done"
    /\ UNCHANGED <<msEntry, msInput, workingArea, readIsCollection, blockSize,
                   msI, writeHead>>
    /\ UNCHANGED <<sortedVars, qsVars, insVars, bsVars>>

\* std::copy of *readTarget into *collection
MergeSortCopyCollection ==
    /\ msPc = "loop"
    /\ msEntry = "collection"
    /\ ~(blockSize < collectionSize)
    /\ collection' = readTarget
    /\ msPc' = "done"
    /\ UNCHANGED <<msEntry, msInput, workingArea, readIsCollection, blockSize,
                   msI, writeHead>>
    /\ UNCHANGED <<sortedVars, qsVars, insVars, bsVars>>

\* begin[i] = readTarget[i] for every i
MergeSortCopyRange ==
    /\ msPc = "loop"
    /\ msEntry = "range"
    /\ ~(blockSize < collectionSize)
    /\ collection' = [p \in 1..collectionSize |-> readTarget[p]]
    /\ msPc' = "done"
    /\ UNCHANGED <<msEntry, msInput, workingArea, readIsCollection, blockSize,
                   msI, writeHead>>
    /\ UNCHANGED <<sortedVars, qsVars, insVars, bsVars>>

----------------------------------------------------------------------------
(* IsSorted *)

\* IsSortedLoop with *next <= *begin as its comparison
RECURSIVE IsSortedLoopStrict(_, _, _)
IsSortedLoopStrict(s, begin, next) ==
    IF next = Len(s)
    THEN TRUE
    ELSE IF s[next + 1] <= s[begin + 1]
    THEN FALSE
    ELSE IsSortedLoopStrict(s, begin + 1, next + 1)

\* The loop of IsSorted: begin and next are the positions of the two iterators
RECURSIVE IsSortedLoop(_, _, _)
IsSortedLoop(s, begin, next) ==
    IF next = Len(s)
    THEN TRUE
    ELSE IF s[next + 1] < s[begin + 1]
    THEN FALSE
    ELSE IsSortedLoop(s, begin + 1, next + 1)

\* The value IsSorted returns for a range that passes its assertion
IsSorted(s) == IsSortedLoop(s, 0, 1)

InitIsSorted ==
    /\ rangeInput \in SeqsUpTo(0..SortedMaxValue, SortedMaxLen)
    /\ range = rangeInput
    /\ sortedResult = "none"

\* MIST_ASSERT(begin != end) fails
IsSortedAssert ==
    /\ sortedResult = "none"
    /\ Len(range) = 0
    /\ sortedResult' = "asserted"
    /\ UNCHANGED <<range, rangeInput>>
    /\ UNCHANGED <<msVars, qsVars, insVars, bsVars>>

IsSortedCall ==
    /\ sortedResult = "none"
    /\ Len(range) # 0
    /\ sortedResult' = IF IsSorted(range) THEN "true" ELSE "false"
    /\ UNCHANGED <<range, rangeInput>>
    /\ UNCHANGED <<msVars, qsVars, insVars, bsVars>>

----------------------------------------------------------------------------
(* QuickSort *)

Swap(s, p, q) == [s EXCEPT ![p + 1] = s[q + 1], ![q + 1] = s[p + 1]]

\* The result of the rest of a partition loop, with the positions that this
\* iteration dereferenced
Touching(result, positions) == [result EXCEPT !.touched = @ \cup positions]

\* Partition tracking every larger element as the first largest, not only
\* the first one
RECURSIVE PartitionLastLargest(_, _, _, _, _)
PartitionLastLargest(s, compareTarget, second, pivot, firstLargest) ==
    IF compareTarget = second
    THEN [array |-> s, firstLargest |-> firstLargest, touched |-> {}]
    ELSE IF /\ s[compareTarget + 1] <= s[pivot + 1]
            /\ firstLargest # pivot
            /\ compareTarget # pivot
    THEN Touching(PartitionLastLargest(Swap(s, compareTarget, firstLargest), compareTarget + 1,
                              second, pivot, firstLargest + 1),
                  {compareTarget, pivot, firstLargest})
    ELSE IF s[compareTarget + 1] > s[pivot + 1]
    THEN Touching(PartitionLastLargest(s, compareTarget + 1, second, pivot, compareTarget),
                  {compareTarget, pivot})
    ELSE Touching(PartitionLastLargest(s, compareTarget + 1, second, pivot, firstLargest),
                  {compareTarget, pivot})

\* Partition with *compareTarget < *pivot as its first comparison: an
\* element equal to the pivot stays where it is
RECURSIVE PartitionStrict(_, _, _, _, _)
PartitionStrict(s, compareTarget, second, pivot, firstLargest) ==
    IF compareTarget = second
    THEN [array |-> s, firstLargest |-> firstLargest, touched |-> {}]
    ELSE IF /\ s[compareTarget + 1] < s[pivot + 1]
            /\ firstLargest # pivot
            /\ compareTarget # pivot
    THEN Touching(PartitionStrict(Swap(s, compareTarget, firstLargest), compareTarget + 1,
                                  second, pivot, firstLargest + 1),
                  {compareTarget, pivot, firstLargest})
    ELSE IF s[compareTarget + 1] > s[pivot + 1] /\ firstLargest = pivot
    THEN Touching(PartitionStrict(s, compareTarget + 1, second, pivot, compareTarget),
                  {compareTarget, pivot})
    ELSE Touching(PartitionStrict(s, compareTarget + 1, second, pivot, firstLargest),
                  {compareTarget, pivot})

\* The for loop of a partition pass over [compareTarget, second)
RECURSIVE Partition(_, _, _, _, _)
Partition(s, compareTarget, second, pivot, firstLargest) ==
    IF compareTarget = second
    THEN [array |-> s, firstLargest |-> firstLargest, touched |-> {}]
    ELSE IF /\ s[compareTarget + 1] <= s[pivot + 1]
            /\ firstLargest # pivot
            /\ compareTarget # pivot
    THEN Touching(Partition(Swap(s, compareTarget, firstLargest), compareTarget + 1,
                   second, pivot, firstLargest + 1),
                  {compareTarget, pivot, firstLargest})
    ELSE IF s[compareTarget + 1] > s[pivot + 1] /\ firstLargest = pivot
    THEN Touching(Partition(s, compareTarget + 1, second, pivot, compareTarget),
                  {compareTarget, pivot})
    ELSE Touching(Partition(s, compareTarget + 1, second, pivot, firstLargest),
                  {compareTarget, pivot})

\* The pushes that end an iteration of the while loop: the right range
\* first, then the left range, each when it has more than one element
PushRanges(stack, first, second, pivot) ==
    LET withRight == IF second - (pivot + 1) > 1
                     THEN Append(stack, <<pivot + 1, second>>)
                     ELSE stack
    IN  IF pivot - first > 1
        THEN Append(withRight, <<first, pivot>>)
        ELSE withRight

InitQuickSort ==
    /\ qsInput \in SeqsUpTo(0..QuickMaxValue, QuickMaxLen)
    /\ array = qsInput
    /\ sortingRanges = << <<0, Len(qsInput)>> >>
    /\ lastPass = NoPass
    /\ qsPc = "loop"

currentRange == sortingRanges[Len(sortingRanges)]

\* The stack without its top
popped == SubSeq(sortingRanges, 1, Len(sortingRanges) - 1)

\* One iteration of the while loop on a range that has a last element
QuickSortPass ==
    /\ qsPc = "loop"
    /\ sortingRanges # <<>>
    /\ currentRange[1] # currentRange[2]
    /\ LET first == currentRange[1]
           second == currentRange[2]
           scanned == Partition(array, first, second, second - 1, second - 1)
           pivot == scanned.firstLargest
           swapped == Swap(scanned.array, scanned.firstLargest, second - 1)
       IN  /\ array' = swapped
           /\ sortingRanges' = PushRanges(popped, first, second, pivot)
           /\ lastPass' = [made |-> TRUE, first |-> first, second |-> second,
                           pivot |-> pivot,
                           touched |-> scanned.touched
                                          \cup {scanned.firstLargest, second - 1},
                           before |-> array, after |-> swapped,
                           pushed |-> PushRanges(<<>>, first, second, pivot)]
    /\ UNCHANGED <<qsInput, qsPc>>
    /\ UNCHANGED <<msVars, sortedVars, insVars, bsVars>>

\* One iteration of the while loop on the empty range [begin, begin): the
\* range is popped, the pivot is begin - 1, a position before the sequence,
\* and the loop body is skipped.  std::swap(*firstLargest, *pivot) reads and
\* writes that position, which is undefined: the access faults, or it swaps
\* the foreign value with itself and the call goes on (neither range is
\* pushed: the distances are 0 and -1).
QuickSortPassEmpty ==
    /\ qsPc = "loop"
    /\ sortingRanges # <<>>
    /\ currentRange[1] = currentRange[2]
    /\ LET first == currentRange[1]
           second == currentRange[2]
           pivot == second - 1
       IN  /\ lastPass' = [made |-> TRUE, first |-> first, second |-> second,
                           pivot |-> pivot, touched |-> {pivot},
                           before |-> array, after |-> array,
                           pushed |-> PushRanges(<<>>, first, second, pivot)]
           /\ \/ /\ qsPc' = "fault"
                 /\ sortingRanges' = popped
              \/ /\ sortingRanges' = PushRanges(popped, first, second, pivot)
                 /\ UNCHANGED qsPc
    /\ UNCHANGED <<qsInput, array>>
    /\ UNCHANGED <<msVars, sortedVars, insVars, bsVars>>

\* The stack is empty: QuickSort returns
QuickSortReturn ==
    /\ qsPc = "loop"
    /\ sortingRanges = <<>>
    /\ qsPc' = "done"
    /\ UNCHANGED <<qsInput, array, sortingRanges, lastPass>>
    /\ UNCHANGED <<msVars, sortedVars, insVars, bsVars>>

----------------------------------------------------------------------------
(* InsertionSort *)

InsertAt(s, p, e) == SubSeq(s, 1, p) \o <<e>> \o SubSeq(s, p + 1, Len(s))

InitInsertionSort ==
    /\ destInput \in SeqsUpTo(0..InsertMaxValue, InsertMaxDest)
    /\ source \in SeqsUpTo(0..InsertMaxValue, InsertMaxSource)
    /\ destination = destInput
    /\ sourcePos = 0
    /\ start = 0
    /\ end = 0
    /\ insPc = "enter"

\* The two assertions on the destination; IsSorted asserts on an empty
\* range, which the first assertion has excluded
InsertionSortEnter ==
    /\ insPc = "enter"
    /\ insPc' = IF Len(destination) > 0 /\ IsSorted(destination)
                THEN "for"
                ELSE "asserted"
    /\ UNCHANGED <<destInput, source, destination, sourcePos, start, end>>
    /\ UNCHANGED <<msVars, sortedVars, qsVars, bsVars>>

\* The for loop takes the next element of source
InsertionSortElement ==
    /\ insPc = "for"
    /\ sourcePos < Len(source)
    /\ start' = 0
    /\ end' = Len(destination)
    /\ insPc' = "search"
    /\ UNCHANGED <<destInput, source, destination, sourcePos>>
    /\ UNCHANGED <<msVars, sortedVars, qsVars, bsVars>>

\* InsertionSortNarrow with the midpoint start + (end - start) / 2, without
\* the subtraction of one from end
InsertionSortNarrowMid ==
    /\ insPc = "search"
    /\ end - start > 1
    /\ LET element == source[sourcePos + 1]
           pivotIndex == start + (end - start) \div 2
           pivot == destination[pivotIndex + 1]
           newStart == IF element > pivot THEN pivotIndex + 1 ELSE start
           newEnd == IF element > pivot THEN end ELSE pivotIndex + 1
       IN  /\ start' = newStart
           /\ end' = newEnd
           /\ insPc' = IF newEnd - newStart >= 1 THEN "search" ELSE "asserted"
    /\ UNCHANGED <<destInput, source, destination, sourcePos>>
    /\ UNCHANGED <<msVars, sortedVars, qsVars, bsVars>>

\* One iteration of the binary search, with its assertion
InsertionSortNarrow ==
    /\ insPc = "search"
    /\ end - start > 1
    /\ LET element == source[sourcePos + 1]
           pivotIndex == start + (end - 1 - start) \div 2
           pivot == destination[pivotIndex + 1]
           newStart == IF element > pivot THEN pivotIndex + 1 ELSE start
           newEnd == IF element > pivot THEN end ELSE pivotIndex + 1
       IN  /\ start' = newStart
           /\ end' = newEnd
           /\ insPc' = IF newEnd - newStart >= 1 THEN "search" ELSE "asserted"
    /\ UNCHANGED <<destInput, source, destination, sourcePos>>
    /\ UNCHANGED <<msVars, sortedVars, qsVars, bsVars>>

\* InsertionSortInsert without the last comparison: the element always goes
\* before the remaining position
InsertionSortInsertBefore ==
    /\ insPc = "search"
    /\ ~(end - start > 1)
    /\ LET element == source[sourcePos + 1]
           pivotIndex == start + (end - start) \div 2
       IN  destination' = InsertAt(destination, pivotIndex, element)
    /\ sourcePos' = sourcePos + 1
    /\ insPc' = "for"
    /\ UNCHANGED <<destInput, source, start, end>>
    /\ UNCHANGED <<msVars, sortedVars, qsVars, bsVars>>

\* The window has one position left: the element goes after or before it
InsertionSortInsert ==
    /\ insPc = "search"
    /\ ~(end - start > 1)
    /\ LET element == source[sourcePos + 1]
           pivotIndex == start + (end - start) \div 2
           pivot == destination[pivotIndex + 1]
       IN  destination' = IF element > pivot
                          THEN InsertAt(destination, pivotIndex + 1, element)
                          ELSE InsertAt(destination, pivotIndex, element)
    /\ sourcePos' = sourcePos + 1
    /\ insPc' = "for"
    /\ UNCHANGED <<destInput, source, start, end>>
    /\ UNCHANGED <<msVars, sortedVars, qsVars, bsVars>>

InsertionSortReturn ==
    /\ insPc = "for"
    /\ sourcePos = Len(source)
    /\ insPc' = "done"
    /\ UNCHANGED <<destInput, source, destination, sourcePos, start, end>>
    /\ UNCHANGED <<msVars, sortedVars, qsVars, bsVars>>

----------------------------------------------------------------------------
(* BucketSort *)

\* while (counts[currentIndex] == 0) ++currentIndex, as far as the positions
\* of counts go: the position of the first count that is not 0, or
\* Len(c) when the loop leaves the vector
RECURSIVE SkipEmpty(_, _)
SkipEmpty(c, index) ==
    IF index < Len(c) /\ c[index + 1] = 0
    THEN SkipEmpty(c, index + 1)
    ELSE index

InitBucketSort ==
    /\ bsInput \in SeqsUpTo(0..BucketMaxValue, BucketMaxLen)
    /\ min \in 0..BucketMaxValue
    /\ max \in 0..BucketMaxValue
    /\ bucketRange = bsInput
    /\ counts = <<>>
    /\ current = 0
    /\ currentIndex = 0
    /\ countsOutOfBounds = FALSE
    /\ bsPc = "enter"

\* MIST_ASSERT(max > min), then the vector of max - min counts
BucketSortEnter ==
    /\ bsPc = "enter"
    /\ IF max > min
       THEN /\ counts' = [k \in 1..(max - min) |-> 0]
            /\ bsPc' = "count"
       ELSE /\ bsPc' = "asserted"
            /\ UNCHANGED counts
    /\ UNCHANGED <<bsInput, bucketRange, min, max, current, currentIndex,
                   countsOutOfBounds>>
    /\ UNCHANGED <<msVars, sortedVars, qsVars, insVars>>

\* One iteration of the counting loop whose index is a position of counts,
\* or whose element fails one of the two assertions
BucketSortCount ==
    /\ bsPc = "count"
    /\ current < Len(bucketRange)
    /\ LET value == bucketRange[current + 1]
       IN  IF ~(value >= min) \/ ~(value <= max)
           THEN /\ bsPc' = "asserted"
                /\ UNCHANGED <<counts, current>>
           ELSE /\ value - min < Len(counts)
                /\ counts' = [counts EXCEPT ![value - min + 1] = @ + 1]
                /\ current' = current + 1
                /\ UNCHANGED bsPc
    /\ UNCHANGED <<bsInput, bucketRange, min, max, currentIndex, countsOutOfBounds>>
    /\ UNCHANGED <<msVars, sortedVars, qsVars, insVars>>

\* One iteration of the counting loop on an element that passes the
\* assertions and whose index value - min is not a position of counts (the
\* element is max).  ++counts[max - min] is undefined: the access faults,
\* or it increments memory that is not part of counts and the loop goes on.
BucketSortCountOutOfBounds ==
    /\ bsPc = "count"
    /\ current < Len(bucketRange)
    /\ LET value == bucketRange[current + 1]
       IN  /\ value >= min
           /\ value <= max
           /\ ~(value - min < Len(counts))
    /\ countsOutOfBounds' = TRUE
    /\ \/ /\ bsPc' = "fault"
          /\ UNCHANGED current
       \/ /\ current' = current + 1
          /\ UNCHANGED bsPc
    /\ UNCHANGED <<bsInput, bucketRange, min, max, counts, currentIndex>>
    /\ UNCHANGED <<msVars, sortedVars, qsVars, insVars>>

\* The counting loop is over: size_t currentIndex = 0 and the second loop starts
BucketSortCounted ==
    /\ bsPc = "count"
    /\ current = Len(bucketRange)
    /\ current' = 0
    /\ currentIndex' = 0
    /\ bsPc' = "rebuild"
    /\ UNCHANGED <<bsInput, bucketRange, min, max, counts, countsOutOfBounds>>
    /\ UNCHANGED <<msVars, sortedVars, qsVars, insVars>>

\* One iteration of the rebuilding loop that finds a count in counts
BucketSortRebuild ==
    /\ bsPc = "rebuild"
    /\ current < Len(bucketRange)
    /\ LET index == SkipEmpty(counts, currentIndex)
       IN  /\ index < Len(counts)
           /\ currentIndex' = index
           /\ bucketRange' = [bucketRange EXCEPT ![current + 1] = index]
           /\ counts' = [counts EXCEPT ![index + 1] = @ - 1]
    /\ current' = current + 1
    /\ UNCHANGED <<bsInput, min, max, countsOutOfBounds, bsPc>>
    /\ UNCHANGED <<msVars, sortedVars, qsVars, insVars>>

\* One iteration of the rebuilding loop that runs currentIndex past the last
\* count.  Reading counts[currentIndex] there is undefined: the access
\* faults, or it reads memory that is not part of counts, skips the
\* positions that read 0 and stops at one that does not, within
\* BucketMaxOverrun positions of the end.
BucketSortRebuildOutOfBounds ==
    /\ bsPc = "rebuild"
    /\ current < Len(bucketRange)
    /\ LET index == SkipEmpty(counts, currentIndex)
       IN  /\ ~(index < Len(counts))
           /\ countsOutOfBounds' = TRUE
           /\ \/ /\ bsPc' = "fault"
                 /\ UNCHANGED <<bucketRange, current, currentIndex>>
              \/ \E stop \in index..(Len(counts) + BucketMaxOverrun) :
                    /\ currentIndex' = stop
                    /\ bucketRange' = [bucketRange EXCEPT ![current + 1] = stop]
                    /\ current' = current + 1
                    /\ UNCHANGED bsPc
    /\ UNCHANGED <<bsInput, min, max, counts>>
    /\ UNCHANGED <<msVars, sortedVars, qsVars, insVars>>

BucketSortReturn ==
    /\ bsPc = "rebuild"
    /\ current = Len(bucketRange)
    /\ bsPc' = "done"
    /\ UNCHANGED <<bsInput, bucketRange, min, max, counts, current, currentIndex,
                   countsOutOfBounds>>
    /\ UNCHANGED <<msVars, sortedVars, qsVars, insVars>>

----------------------------------------------------------------------------
(* The program: one call of one operation *)

Init ==
    \/ InitMergeSort /\ IdleIsSorted /\ IdleQuickSort /\ IdleInsertionSort /\ IdleBucketSort
    \/ InitIsSorted /\ IdleMergeSort /\ IdleQuickSort /\ IdleInsertionSort /\ IdleBucketSort
    \/ InitQuickSort /\ IdleMergeSort /\ IdleIsSorted /\ IdleInsertionSort /\ IdleBucketSort
    \/ InitInsertionSort /\ IdleMergeSort /\ IdleIsSorted /\ IdleQuickSort /\ IdleBucketSort
    \/ InitBucketSort /\ IdleMergeSort /\ IdleIsSorted /\ IdleQuickSort /\ IdleInsertionSort

Next ==
    \/ MergeSortPair
    \/ MergeSortEndPass
    \/ MergeSortCopyCollection
    \/ MergeSortCopyRange
    \/ IsSortedAssert
    \/ IsSortedCall
    \/ QuickSortPass
    \/ QuickSortPassEmpty
    \/ QuickSortReturn
    \/ InsertionSortEnter
    \/ InsertionSortElement
    \/ InsertionSortNarrow
    \/ InsertionSortInsert
    \/ InsertionSortReturn
    \/ BucketSortEnter
    \/ BucketSortCount
    \/ BucketSortCountOutOfBounds
    \/ BucketSortCounted
    \/ BucketSortRebuild
    \/ BucketSortRebuildOutOfBounds
    \/ BucketSortReturn

Spec == Init /\ [][Next]_vars

\* One call of QuickSort alone.  The call is one thread that runs until it
\* returns or faults, so a step that can be taken is taken.
InitQuickSortOnly ==
    InitQuickSort /\ IdleMergeSort /\ IdleIsSorted /\ IdleInsertionSort /\ IdleBucketSort

NextQuickSort ==
    \/ QuickSortPass
    \/ QuickSortPassEmpty
    \/ QuickSortReturn

SpecQuickSort == InitQuickSortOnly /\ [][NextQuickSort]_vars /\ WF_vars(NextQuickSort)

----------------------------------------------------------------------------
(* Properties *)

Range(s) == {s[p] : p \in 1..Len(s)}
Count(s, v) == Cardinality({p \in 1..Len(s) : s[p] = v})
IsPermutation(a, b) ==
    /\ Len(a) = Len(b)
    /\ \A v \in Range(a) \cup Range(b) : Count(a, v) = Count(b, v)
Ascending(s) == \A p \in 1..(Len(s) - 1) : ~(s[p + 1] < s[p])
KeysAscending(s) == \A p \in 1..(Len(s) - 1) : ~(s[p + 1].key < s[p].key)
EqualKeys(a, b) == ~(a.key < b.key) /\ ~(b.key < a.key)

\* C1: when MergeSort has returned, from either entry point and for every
\* length, no adjacent pair (a, b) of the sequence has b < a.
MergeSortAscending == msPc = "done" => KeysAscending(collection)

\* C2: when QuickSort has returned, the sequence is ascending and is a
\* permutation of the input.
QuickSortSorts == qsPc = "done" => Ascending(array) /\ IsPermutation(array, qsInput)

\* QuickSort has returned on an input with duplicates that was not ascending
QuickSortSortsWitness ==
    /\ qsPc = "done"
    /\ Len(qsInput) >= 4
    /\ ~Ascending(qsInput)
    /\ Cardinality(Range(qsInput)) < Len(qsInput)

\* C3: MergeSort is stable: of two input elements with equal keys, the one
\* that was earlier in the input is earlier in the output.
MergeSortStable ==
    msPc = "done" =>
        \A p, q \in 1..Len(msInput) :
            (p < q /\ EqualKeys(msInput[p], msInput[q])) =>
                \E i, j \in 1..Len(collection) :
                    /\ i < j
                    /\ collection[i] = msInput[p]
                    /\ collection[j] = msInput[q]

\* MergeSort has returned on an input where a smaller key stands between
\* two equal keys, as in [(5,a), (3,b), (5,c)]
MergeSortStableWitness ==
    /\ msPc = "done"
    /\ \E p, q, r \in 1..Len(msInput) :
          /\ p < q /\ q < r
          /\ EqualKeys(msInput[p], msInput[r])
          /\ msInput[q].key < msInput[p].key

\* C4: when MergeSort has returned, the sequence is a permutation of the
\* input: no element is lost, duplicated or replaced by a value of the
\* working area.
MergeSortPermutes == msPc = "done" => IsPermutation(collection, msInput)

\* MergeSort has returned after a last pass that left the result in the
\* working area (three passes), on a length that is not a power of two
MergeSortPermutesWitness ==
    /\ msPc = "done"
    /\ ~readIsCollection
    /\ Len(msInput) \in {5, 6, 7}
    /\ collection # msInput

\* C5: from a non-empty ascending destination, the destination is ascending
\* after every insertion and has grown by one each time; when InsertionSort
\* has returned it holds the original destination elements and the source
\* elements, as a multiset.
InsertionSortMerges ==
    /\ insPc \in {"for", "search", "done"} =>
          /\ Ascending(destination)
          /\ Len(destination) = Len(destInput) + sourcePos
    /\ insPc = "done" =>
          /\ Len(destination) = Len(destInput) + Len(source)
          /\ IsPermutation(destination, destInput \o source)

\* InsertionSort has returned after inserting a descending source whose
\* first element is above every element of the destination
InsertionSortMergesWitness ==
    /\ insPc = "done"
    /\ Len(source) >= 2
    /\ source[2] < source[1]
    /\ \A p \in 1..Len(destInput) : destInput[p] < source[1]

BucketSortPrecondition ==
    /\ max > min
    /\ \A p \in 1..Len(bsInput) : bsInput[p] >= min /\ bsInput[p] <= max

\* C6: when BucketSort has returned on a sequence within [min, max], the
\* sequence holds the values of the input in ascending order.
BucketSortRoundTrip ==
    (bsPc = "done" /\ BucketSortPrecondition) =>
        Ascending(bucketRange) /\ IsPermutation(bucketRange, bsInput)

\* C7: on a sequence within [min, max], BucketSort indexes counts only at
\* positions that counts has.
BucketSortIndexesInBounds ==
    (bsPc # "idle" /\ BucketSortPrecondition) => ~countsOutOfBounds

\* C8: on a non-empty range, IsSorted returns true exactly when no adjacent
\* pair (a, b) has b < a, and the range is as it was.
IsSortedIff ==
    sortedResult \in {"true", "false"} =>
        /\ (sortedResult = "true") <=>
               (\A p \in 1..(Len(rangeInput) - 1) : ~(rangeInput[p + 1] < rangeInput[p]))
        /\ range = rangeInput

\* IsSorted has returned true on a range with two equal adjacent elements
IsSortedIffWitness ==
    /\ sortedResult = "true"
    /\ \E p \in 1..(Len(rangeInput) - 1) : rangeInput[p] = rangeInput[p + 1]

\* C9: a call that violates its contract ends on a failed assertion with
\* its sequence as it was: IsSorted on an empty range, InsertionSort on an
\* empty or not ascending destination, BucketSort with max <= min,
\* BucketSort with an element outside [min, max].
ContractViolationsAssert ==
    /\ (sortedResult \notin {"idle", "none"} /\ Len(rangeInput) = 0) =>
          sortedResult = "asserted" /\ range = rangeInput
    /\ (insPc \notin {"idle", "enter"}
            /\ (Len(destInput) = 0 \/ ~Ascending(destInput))) =>
          insPc = "asserted" /\ destination = destInput /\ sourcePos = 0
    /\ (bsPc \notin {"idle", "enter"} /\ ~(max > min)) =>
          bsPc = "asserted" /\ bucketRange = bsInput
    /\ (bsPc # "idle" /\ max > min
            /\ \E p \in 1..Len(bsInput) : bsInput[p] < min \/ bsInput[p] > max) =>
          bsPc \in {"enter", "count", "asserted"} /\ bucketRange = bsInput

\* C10: MergeSort and QuickSort on an ascending sequence of any length
\* end without a fault and leave every position as it was.
SortedInputUnchanged ==
    /\ (msPc # "idle" /\ KeysAscending(msInput)) =>
          /\ msPc \in {"loop", "done"}
          /\ msPc = "done" => collection = msInput
    /\ (qsPc # "idle" /\ Ascending(qsInput)) =>
          /\ qsPc \in {"loop", "done"}
          /\ qsPc = "done" => array = qsInput

\* C11: when a pass of MergeSort ends (the pair loop is over, the buffers
\* are about to swap), writeHead equals the length of the sequence: the
\* pairs merged in the pass cover every position 0..n-1, so every position
\* of the write target was written in this pass.
MergePassCoversAll ==
    (msPc = "loop" /\ blockSize < collectionSize /\ ~(msI < numBlocks)) =>
        writeHead = collectionSize

\* C12: at the end of a partition pass on a popped range [first, second)
\* with at least one element, with p the final position of the pivot: every
\* element of [first, p) is <= the pivot value, every element of (p, second)
\* is > the pivot value, the range holds the elements it held before the
\* pass (as a multiset) and the positions outside the range are unchanged.
PartitionPostcondition ==
    (lastPass.made /\ lastPass.first < lastPass.second) =>
        LET first == lastPass.first
            second == lastPass.second
            p == lastPass.pivot
            before == lastPass.before
            after == lastPass.after
        IN  /\ p \in first..(second - 1)
            /\ after[p + 1] = before[second]
            /\ \A q \in first..(p - 1) : after[q + 1] <= after[p + 1]
            /\ \A q \in (p + 1)..(second - 1) : after[q + 1] > after[p + 1]
            /\ Len(after) = Len(before)
            /\ IsPermutation(SubSeq(after, first + 1, second),
                             SubSeq(before, first + 1, second))
            /\ \A q \in 0..(Len(before) - 1) :
                  (q < first \/ q >= second) => after[q + 1] = before[q + 1]

\* A pass on a range inside the sequence has moved elements and put the
\* pivot between an element equal to it and a larger one
PartitionPostconditionWitness ==
    /\ lastPass.made
    /\ lastPass.second - lastPass.first >= 3
    /\ lastPass.second - lastPass.first < Len(lastPass.before)
    /\ lastPass.after # lastPass.before
    /\ lastPass.pivot > lastPass.first
    /\ lastPass.pivot < lastPass.second - 1
    /\ lastPass.after[lastPass.pivot] = lastPass.after[lastPass.pivot + 1]

\* C15: every position QuickSort(begin, end) dereferences in an iteration of
\* its loop (the scanned positions, the pivot, the boundary marker, both
\* operands of every swap) is a position of [begin, end), for every length.
QuickSortStaysInRange ==
    lastPass.made => \A q \in lastPass.touched : 0 <= q /\ q < Len(qsInput)

RangesDisjoint(r1, r2) == r1[2] <= r2[1] \/ r2[2] <= r1[1]

\* The ranges pushed by the last pass have more than one element and lie in
\* the range they were split from, without the final position of the pivot;
\* the ranges on the stack are pairwise disjoint
WorkStackInvariant ==
    /\ lastPass.made =>
          \A k \in 1..Len(lastPass.pushed) :
              LET r == lastPass.pushed[k]
              IN  /\ r[2] - r[1] > 1
                  /\ lastPass.first <= r[1]
                  /\ r[2] <= lastPass.second
                  /\ ~(r[1] <= lastPass.pivot /\ lastPass.pivot < r[2])
    /\ \A i, j \in 1..Len(sortingRanges) :
          i < j => RangesDisjoint(sortingRanges[i], sortingRanges[j])

\* C13: every range pushed by a pass has more than one element and lies
\* strictly inside the range it was split from, the ranges on the stack are
\* pairwise disjoint, and for every input QuickSort ends by returning with
\* an empty work stack.
QuickSortStackEmpties ==
    /\ []WorkStackInvariant
    /\ <>(qsPc = "done" /\ sortingRanges = <<>>)

\* C14: in the binary search of InsertionSort the window [start, end) stays
\* inside the destination and is never empty; every iteration of the loop
\* passes its assertion and leaves a strictly smaller window; the loop ends,
\* and the element is inserted, with a window of exactly one position.
BinarySearchWindow ==
    [][/\ insPc' = "search" =>
             0 <= start' /\ start' < end' /\ end' <= Len(destination')
       /\ (insPc = "search" /\ end - start > 1) =>
             insPc' = "search" /\ end' - start' < end - start
       /\ (insPc = "search" /\ insPc' = "for") => end - start = 1]_vars

\* The search has narrowed the window from both sides down to one position
BinarySearchWindowWitness ==
    /\ insPc = "search"
    /\ end - start = 1
    /\ start > 0
    /\ end < Len(destination)

====
